---- MODULE Spec2Model ----
(***************************************************************************)
(* Model of src/app.py: the Streamlit dashboard "Pompiers France 2023".    *)
(*                                                                         *)
(* One run of the script is one step of the model: load_data (cached),     *)
(* the three sidebar filters, df_filtered, and the selected page.          *)
(*                                                                         *)
(* Representation                                                          *)
(*   - a CSV cell is its text, a sequence of one-character strings;        *)
(*   - a raw header is [core, lead, trail]: the text `core`, which has no  *)
(*     whitespace at either end, between `lead` and `trail` spaces;        *)
(*   - a number is an integer count of tenths (one decimal digit exact);   *)
(*   - a percentage is a reduced fraction, or nan / inf / -inf, which is   *)
(*     what a numpy float division by zero yields.                         *)
(***************************************************************************)
EXTENDS Integers, Sequences, FiniteSets, TLC

(***************************************************************************)
(* Text                                                                    *)
(***************************************************************************)
\* The characters used, in code-point order (Python compares str this way).
Alphabet ==
  << " ", ",", "-", ".", "/", "0", "1", "2", "3", "4", "5", "6", "7", "8", "9",
     "A", "B", "C", "D", "E", "F", "G", "H", "I", "J", "K", "L", "M", "N", "O",
     "P", "Q", "R", "S", "T", "U", "V", "W", "X", "Y", "Z",
     "a", "b", "c", "d", "e", "f", "g", "h", "i", "j", "k", "l", "m", "n", "o",
     "p", "q", "r", "s", "t", "u", "v", "w", "x", "y", "z", "é" >>

CharCode(c) == CHOOSE i \in 1..Len(Alphabet) : Alphabet[i] = c

RECURSIVE StrLess(_, _)
StrLess(a, b) ==
  IF a = <<>> THEN b # <<>>
  ELSE IF b = <<>> THEN FALSE
  ELSE IF a[1] = b[1] THEN StrLess(Tail(a), Tail(b))
  ELSE CharCode(a[1]) < CharCode(b[1])

DigitChars == {"0", "1", "2", "3", "4", "5", "6", "7", "8", "9"}

DigitVal(c) == CharCode(c) - CharCode("0")

DigitChar(k) == Alphabet[CharCode("0") + k]

AllDigits(s) == s # <<>> /\ \A i \in DOMAIN s : s[i] \in DigitChars

RECURSIVE DigitsVal(_)
DigitsVal(s) ==
  IF s = <<>> THEN 0
  ELSE DigitsVal(SubSeq(s, 1, Len(s) - 1)) * 10 + DigitVal(s[Len(s)])

RECURSIVE NatStr(_)
NatStr(k) == IF k < 10 THEN <<DigitChar(k)>> ELSE NatStr(k \div 10) \o <<DigitChar(k % 10)>>

Unsigned(s) == IF s # <<>> /\ s[1] = "-" THEN Tail(s) ELSE s

\* "12", "-3"
IsIntLiteral(s) == AllDigits(Unsigned(s))

\* "2.5", "-0.5": digits, a period, one digit
IsDecimalLiteral(s) ==
  LET u == Unsigned(s)
  IN  /\ Len(u) >= 3
      /\ u[Len(u) - 1] = "."
      /\ u[Len(u)] \in DigitChars
      /\ AllDigits(SubSeq(u, 1, Len(u) - 2))

IsNumberLiteral(s) == IsIntLiteral(s) \/ IsDecimalLiteral(s)

\* The value of a number literal, in tenths.
ParseNumber(s) ==
  LET u == Unsigned(s)
      m == IF IsIntLiteral(s) THEN DigitsVal(u) * 10
           ELSE DigitsVal(SubSeq(u, 1, Len(u) - 2)) * 10 + DigitVal(u[Len(u)])
  IN  IF s[1] = "-" THEN 0 - m ELSE m

(***************************************************************************)
(* Cells of a DataFrame                                                    *)
(***************************************************************************)
IntCell(n) == [t |-> "int", n |-> n, s |-> <<>>]
FloatCell(n) == [t |-> "float", n |-> n, s |-> <<>>]
StrCell(s) == [t |-> "str", n |-> 0, s |-> s]
NaN == [t |-> "nan", n |-> 0, s |-> <<>>]

\* str(x) of a cell: astype(str)
CellStr(c) ==
  LET a == IF c.n < 0 THEN 0 - c.n ELSE c.n
      sign == IF c.n < 0 THEN <<"-">> ELSE <<>>
  IN  CASE c.t = "str" -> c.s
        [] c.t = "nan" -> <<"n", "a", "n">>
        [] c.t = "int" -> sign \o NatStr(a \div 10)
        [] c.t = "float" -> sign \o NatStr(a \div 10) \o <<".", DigitChar(a % 10)>>

\* str.zfill(width)
zfill(s, width) ==
  LET pad == [i \in 1..(width - Len(s)) |-> "0"]
  IN  IF Len(s) >= width THEN s
      ELSE IF s # <<>> /\ s[1] \in {"+", "-"} THEN <<s[1]>> \o pad \o Tail(s)
      ELSE pad \o s

(***************************************************************************)
(* Percentages                                                             *)
(***************************************************************************)
RECURSIVE Gcd(_, _)
Gcd(a, b) == IF b = 0 THEN a ELSE Gcd(b, a % b)

Abs(x) == IF x < 0 THEN 0 - x ELSE x

\* The fraction n/d, d # 0, reduced, with a positive denominator.
Frac(n, d) ==
  LET g == Gcd(Abs(n), Abs(d))
      sg == IF d < 0 THEN 0 - 1 ELSE 1
  IN  [k |-> "num", n |-> (sg * n) \div g, d |-> (sg * d) \div g]

Zero == [k |-> "num", n |-> 0, d |-> 1]

\* part / whole * 100 on numpy numbers: a zero divisor gives nan or an
\* infinity (and a warning), never an exception.
Percent(part, whole) ==
  IF whole # 0 THEN Frac(100 * part, whole)
  ELSE IF part = 0 THEN [k |-> "nan", n |-> 0, d |-> 1]
  ELSE IF part > 0 THEN [k |-> "inf", n |-> 0, d |-> 1]
  ELSE [k |-> "-inf", n |-> 0, d |-> 1]

\* np.where(whole > 0, part / whole * 100, 0), and
\* (part / whole * 100) if whole > 0 else 0
MutGuardedPercent(part, whole) == IF whole >= 0 THEN Percent(part, whole) ELSE Zero

GuardedPercent(part, whole) == IF whole > 0 THEN Percent(part, whole) ELSE Zero

IsNum(r) == r.k = "num"

RateLeq(a, b) == a.n * b.d <= b.n * a.d

(***************************************************************************)
(* load_data                                                               *)
(***************************************************************************)
Sentinel == <<"N", "o", "n", " ", "r", "e", "n", "s", "e", "i", "g", "n", "é">>

\* Cell texts pandas.read_csv reads as missing (its default na_values).
NaValues ==
  { <<>>, <<"N", "A">>, <<"N", "/", "A">>, <<"n", "/", "a">>, <<"N", "a", "N">>,
    <<"n", "a", "n">>, <<"N", "U", "L", "L">>, <<"n", "u", "l", "l">>,
    <<"N", "o", "n", "e">> }

\* read_csv infers one dtype per column: int64 when every cell is an integer,
\* float64 when every present cell is a number, object (str) otherwise.
read_csv_column(texts) ==
  LET present == {i \in DOMAIN texts : texts[i] \notin NaValues}
      allInt == \A i \in present : IsIntLiteral(texts[i])
      allNum == \A i \in present : IsNumberLiteral(texts[i])
  IN  [i \in DOMAIN texts |->
         IF i \notin present THEN NaN
         ELSE IF allInt /\ present = DOMAIN texts THEN IntCell(ParseNumber(texts[i]))
         ELSE IF allNum THEN FloatCell(ParseNumber(texts[i]))
         ELSE StrCell(texts[i])]

\* df.columns.str.strip()
strip(h) == h.core

col_mapping ==
  ( "Année" :> "Annee" ) @@
  ( "Région" :> "Region" ) @@
  ( "Numéro" :> "Numero" ) @@
  ( "Département" :> "Departement" ) @@
  ( "Catégorie A" :> "Categorie_A" ) @@
  ( "Feux d'habitations-bureaux" :> "Feux_habitations" ) @@
  ( "Secours à victime" :> "Secours_victime" ) @@
  ( "Secours à personne" :> "Secours_personne" ) @@
  ( "Malaises à domicile : urgence vitale" :> "Malaises_Urgence" ) @@
  ( "Malaises à domicile : carence" :> "Malaises_Carence" ) @@
  ( "Accidents de circulation" :> "Accidents_circulation" ) @@
  ( "Opérations diverses" :> "Operations_diverses" ) @@
  ( "Total interventions" :> "Total_interventions" )

\* for old_name, new_name in col_mapping.items(): rename if present
rename(name) == IF name \in DOMAIN col_mapping THEN col_mapping[name] ELSE name

numeric_cols ==
  { "Feux_habitations", "Incendies", "Secours_victime", "Secours_personne",
    "Malaises_Urgence", "Malaises_Carence", "Accidents_circulation",
    "Operations_diverses", "Total_interventions" }

text_cols == {"Region", "Departement", "Categorie_A", "Zone"}

Mut_required_cols ==
  {"Region", "Numero", "Departement", "Categorie_A", "Zone"} \cup numeric_cols

required_cols ==
  {"Annee", "Region", "Numero", "Departement", "Categorie_A", "Zone"} \cup numeric_cols

\* df[col] = 0 if col not in ['Region', 'Departement', 'Categorie_A', 'Zone']
\*           else 'Non renseigné'
MutDefaultCell(col) == IF col \in text_cols THEN StrCell(Sentinel) ELSE IntCell(1)

DefaultCell(col) == IF col \in text_cols THEN StrCell(Sentinel) ELSE IntCell(0)

\* pd.to_numeric(cell, errors='coerce'), then fillna(0)
ToNumeric(c) ==
  CASE c.t \in {"int", "float"} -> c
    [] c.t = "str" -> IF IsNumberLiteral(c.s) THEN FloatCell(ParseNumber(c.s))
                      ELSE FloatCell(0)
    [] c.t = "nan" -> FloatCell(0)

\* fillna('Non renseigné').astype(str)
MutCleanText(c) == IF c.t = "nan" THEN c ELSE StrCell(CellStr(c))

CleanText(c) == IF c.t = "nan" THEN StrCell(Sentinel) ELSE StrCell(CellStr(c))

\* astype(str).str.extract(r'(\d+)')[0].fillna('00')
RECURSIVE DigitRun(_)
DigitRun(s) ==
  IF s = <<>> \/ s[1] \notin DigitChars THEN <<>> ELSE <<s[1]>> \o DigitRun(Tail(s))

RECURSIVE ExtractDigits(_)
ExtractDigits(s) ==
  IF s = <<>> THEN <<"0", "0">>
  ELSE IF s[1] \in DigitChars THEN DigitRun(s)
  ELSE ExtractDigits(Tail(s))

SetCol(f, name, data) ==
  [k \in DOMAIN f \cup {name} |-> IF k = name THEN data ELSE f[k]]

\* The frame read from the file, columns stripped and renamed (lines 65-97).
RenamedFrame(raw) ==
  LET names == {rename(strip(raw.h[j])) : j \in DOMAIN raw.h}
  IN  [k \in names |->
         read_csv_column(raw.col[CHOOSE j \in DOMAIN raw.h : rename(strip(raw.h[j])) = k])]

\* Lines 105-107.
FillRequired(f, n) ==
  [k \in DOMAIN f \cup required_cols |->
     IF k \in DOMAIN f THEN f[k] ELSE [i \in 1..n |-> DefaultCell(k)]]

\* Lines 114-115.
ConvertNumeric(f, n) ==
  [k \in DOMAIN f |-> IF k \in numeric_cols THEN [i \in 1..n |-> ToNumeric(f[k][i])] ELSE f[k]]

\* Lines 118-121.
Derive(f, n) ==
  LET tm == [i \in 1..n |-> FloatCell(f["Malaises_Urgence"][i].n + f["Malaises_Carence"][i].n)]
      md == [i \in 1..n |-> FloatCell(f["Secours_victime"][i].n + f["Secours_personne"][i].n)]
      tc == [i \in 1..n |-> GuardedPercent(f["Malaises_Carence"][i].n, tm[i].n)]
  IN  SetCol(SetCol(SetCol(f, "Total_Malaises", tm), "Total_Medical", md), "Taux_Carence", tc)

\* Lines 124-127.
CodeDept(f, n) ==
  SetCol(f, "Code_Dept",
         IF "Numero" \in DOMAIN f
           THEN [i \in 1..n |-> StrCell(zfill(CellStr(f["Numero"][i]), 2))]
           ELSE [i \in 1..n |-> StrCell(ExtractDigits(CellStr(f["Departement"][i])))])

\* Lines 130-133.
CleanTextCols(f, n) ==
  [k \in DOMAIN f |-> IF k \in text_cols THEN [i \in 1..n |-> CleanText(f[k][i])] ELSE f[k]]

\* The columns load_data indexes after filling the required ones; indexing
\* an absent column raises KeyError.
Indexed(f) ==
  numeric_cols \cup (IF "Numero" \in DOMAIN f THEN {} ELSE {"Departement"})

\* Line 63: the encodings tried, in this order; the separator is always ';'.
encodings == <<"latin-1", "utf-8", "cp1252", "iso-8859-1">>

\* pd.read_csv(path, sep=";", encoding=encoding) raises (line 65): whatever
\* the exception, the bare except of line 67 goes on to the next encoding.
Raises(raw, encoding) == encoding \in raw.faults

\* Lines 63-68: the encodings tried from the k-th on, up to and including
\* the first one under which read_csv returns.
RECURSIVE ReadAttempts(_, _)
ReadAttempts(raw, k) ==
  IF k > Len(encodings) THEN << >>
  ELSE IF Raises(raw, encodings[k]) THEN <<encodings[k]>> \o ReadAttempts(raw, k + 1)
  ELSE <<encodings[k]>>

\* Line 69: df is None after the loop.
DfIsNone(raw) == \A k \in DOMAIN encodings : Raises(raw, encodings[k])

\* load_data with the derived columns computed before the conversion.
MutLoadData(raw) ==
  LET n == raw.n
      f2 == FillRequired(RenamedFrame(raw), n)
  IN  [stopped |-> DfIsNone(raw), raised |-> FALSE, attempts |-> ReadAttempts(raw, 1),
       n |-> IF DfIsNone(raw) THEN 0 ELSE n,
       idx |-> IF DfIsNone(raw) THEN << >> ELSE [i \in 1..n |-> i],
       c |-> IF DfIsNone(raw) THEN << >>
             ELSE CleanTextCols(CodeDept(ConvertNumeric(Derive(f2, n), n), n), n)]

\* load_data: the encodings tried; stopped = TRUE when no attempt reads the
\* file (lines 69-71: st.error, st.stop); otherwise the normalisation of the
\* frame read, raised = TRUE when a step of it raises.
load_data(raw) ==
  LET n == raw.n
      f2 == FillRequired(RenamedFrame(raw), n)
      attempts == ReadAttempts(raw, 1)
  IN  IF DfIsNone(raw)
        THEN [stopped |-> TRUE, raised |-> FALSE, attempts |-> attempts,
              n |-> 0, idx |-> << >>, c |-> << >>]
      ELSE IF ~(Indexed(f2) \subseteq DOMAIN f2)
        THEN [stopped |-> FALSE, raised |-> TRUE, attempts |-> attempts,
              n |-> 0, idx |-> << >>, c |-> << >>]
        ELSE [stopped |-> FALSE, raised |-> FALSE, attempts |-> attempts,
              n |-> n, idx |-> [i \in 1..n |-> i],
              c |-> CleanTextCols(CodeDept(Derive(ConvertNumeric(f2, n), n), n), n)]

\* The calls of st.error in the first run. st.stop() raises StopException,
\* which is not an Exception (it derives from BaseException), so the handler
\* of line 142 does not catch the stop of line 71: one call at line 70 when
\* the file is not read, one at line 143 when load_data raises.
Mut_st_error_calls(loaded) == IF loaded.stopped THEN 2 ELSE IF loaded.raised THEN 1 ELSE 0

st_error_calls(loaded) == IF loaded.stopped \/ loaded.raised THEN 1 ELSE 0

(***************************************************************************)
(* Filtering, grouping, top-N                                              *)
(***************************************************************************)
\* frame[mask]: the rows at the positions where the boolean mask holds, in
\* order, with their index labels.
BoolIndex(f, mask) ==
  LET keep(i) == mask[i]
      ps == SelectSeq([i \in 1..f.n |-> i], keep)
  IN  [n |-> Len(ps),
       idx |-> [j \in 1..Len(ps) |-> f.idx[ps[j]]],
       c |-> [k \in DOMAIN f.c |-> [j \in 1..Len(ps) |-> f.c[k][ps[j]]]]]

\* frame[frame[col] == value]
MutWhereEq(f, col, value) ==
  BoolIndex(f, [i \in 1..f.n |-> f.c[col][i].s = value /\ i > 1])

WhereEq(f, col, value) ==
  BoolIndex(f, [i \in 1..f.n |-> f.c[col][i].s = value])

\* Lines 162-168.
Toutes == <<"T", "o", "u", "t", "e", "s">>

MutApplyFilters(f, region, zone, category) ==
  LET f1 == IF region # Toutes THEN WhereEq(f, "Region", region) ELSE f
      f2 == IF zone # Toutes THEN WhereEq(f1, "Zone", zone) ELSE f1
  IN  f2

ApplyFilters(f, region, zone, category) ==
  LET f1 == IF region # Toutes THEN WhereEq(f, "Region", region) ELSE f
      f2 == IF zone # Toutes THEN WhereEq(f1, "Zone", zone) ELSE f1
      f3 == IF category # Toutes THEN WhereEq(f2, "Categorie_A", category) ELSE f2
  IN  f3

RECURSIVE SumOver(_, _)
SumOver(col, ps) ==
  IF ps = {} THEN 0
  ELSE LET p == CHOOSE q \in ps : TRUE IN col[p].n + SumOver(col, ps \ {p})

\* frame[col].sum()
ColSum(f, col) == SumOver(f.c[col], 1..f.n)

\* Tuples of strings, compared as Python compares tuples of str.
RECURSIVE KeyLess(_, _)
KeyLess(a, b) ==
  IF a = <<>> THEN b # <<>>
  ELSE IF b = <<>> THEN FALSE
  ELSE IF a[1] = b[1] THEN KeyLess(Tail(a), Tail(b))
  ELSE StrLess(a[1], b[1])

RECURSIVE SortedKeys(_)
SortedKeys(S) ==
  IF S = {} THEN <<>>
  ELSE LET m == CHOOSE x \in S : \A y \in S \ {x} : KeyLess(x, y)
       IN  <<m>> \o SortedKeys(S \ {m})

\* ['Toutes'] + sorted([v for v in df[col].unique() if v != 'Non renseigné'])
options_list(f, col) ==
  LET vals == {<<f.c[col][i].s>> : i \in 1..f.n} \ {<<Sentinel>>}
      srt == SortedKeys(vals)
  IN  <<Toutes>> \o [j \in DOMAIN srt |-> srt[j][1]]

KeyAt(f, by, i) == [j \in DOMAIN by |-> f.c[by[j]][i].s]

\* Group keys in order of first appearance (groupby(..., sort=False)).
RECURSIVE AppearanceKeys(_, _, _)
AppearanceKeys(f, by, i) ==
  IF i > f.n THEN <<>>
  ELSE LET rest == AppearanceKeys(f, by, i + 1)
           k == KeyAt(f, by, i)
       IN  <<k>> \o SelectSeq(rest, LAMBDA x : x # k)

\* frame.groupby(by).agg({col: 'sum' ...}).reset_index(): one row per key,
\* keys in ascending order (groupby sorts its keys), the sums of cols. The
\* rows with a missing value in a key column are left out (dropna=True).
GroupSum(f, by, cols) ==
  LET rows == {i \in 1..f.n : \A j \in DOMAIN by : f.c[by[j]][i].t # "nan"}
      keys == SortedKeys({KeyAt(f, by, i) : i \in rows})
  IN  [g \in DOMAIN keys |->
         [key |-> keys[g],
          v |-> [c \in cols |-> SumOver(f.c[c], {i \in rows : KeyAt(f, by, i) = keys[g]})],
          r |-> << >>]]

\* grouped[name] = rates: one value per row
WithRate(t, name, rates) ==
  [g \in DOMAIN t |-> [t[g] EXCEPT !.r = (name :> rates[g]) @@ t[g].r]]

\* row[col]: a summed column (a count) or a rate column of a grouped table.
Count(v) == [k |-> "num", n |-> v, d |-> 1]

Value(row, col) == IF col \in DOMAIN row.r THEN row.r[col] ELSE Count(row.v[col])

Descending(t, col) ==
  \A i \in 1..(Len(t) - 1) : RateLeq(Value(t[i + 1], col), Value(t[i], col))

\* t.sort_values(col, ascending=False): the default sort is numpy's quicksort,
\* which is not stable: rows of equal value come out in any order.
sort_values_desc(t, col) ==
  LET m == Len(t)
      perms == {p \in [1..m -> 1..m] : \A i, j \in 1..m : i # j => p[i] # p[j]}
  IN  {s \in {[i \in 1..m |-> t[p[i]]] : p \in perms} : Descending(s, col)}

head(t, n) == SubSeq(t, 1, IF n < Len(t) THEN n ELSE Len(t))

\* Stable descending sort (mergesort on the negated values).
RECURSIVE StableDesc(_, _)
StableDesc(t, col) ==
  IF t = <<>> THEN <<>>
  ELSE LET x == t[Len(t)]
           s == StableDesc(SubSeq(t, 1, Len(t) - 1), col)
           \* x goes after every row whose value is >= its own
           k == Cardinality({i \in DOMAIN s : RateLeq(Value(x, col), Value(s[i], col))})
       IN  SubSeq(s, 1, k) \o <<x>> \o SubSeq(s, k + 1, Len(s))

MutNlargest(t, n, col) == {head(t, n)}

\* t.nlargest(n, col), keep='first': when n covers the table pandas sorts it
\* whole (sort_values); otherwise it selects the n largest with a stable sort.
nlargest(t, n, col) ==
  IF n >= Len(t) THEN {head(s, n) : s \in sort_values_desc(t, col)}
  ELSE {head(StableDesc(t, col), n)}

(***************************************************************************)
(* The pages                                                               *)
(***************************************************************************)
TopDeptsN == 15
TopIncendiesN == 10
TopRegionsN == 20

Pages ==
  {"Contexte", "Vue d'ensemble", "Urgences médicales", "Incendies",
   "Analyse géographique", "Insights & Conclusion"}

Metrics == {"Taux de carence", "Total interventions", "Part urgences médicales", "Incendies"}

\* Series.round(1): to the nearest tenth, halves to even; nan and inf stay.
Round1(r) ==
  IF ~IsNum(r) THEN r
  ELSE LET q == (10 * r.n) \div r.d
           rem == 10 * r.n - q * r.d
           up == 2 * rem > r.d \/ (2 * rem = r.d /\ q % 2 = 1)
       IN  Frac(IF up THEN q + 1 ELSE q, 10)

NoTables == [x \in {} |-> <<>>]
NoPct == [x \in {} |-> Zero]

\* Page 1, lines 224-233: the figures of the whole table.
Contexte(d) ==
  {[pct |-> ("part_medical" :>
               Percent(ColSum(d, "Total_Medical"), ColSum(d, "Total_interventions"))),
    tab |-> NoTables]}

\* Page 2, lines 257-334.
VueEnsemble(v) ==
  LET total_inter == ColSum(v, "Total_interventions")
      share(col) == GuardedPercent(ColSum(v, col), total_inter)
      grouped == GroupSum(v, <<"Departement">>,
                          {"Total_interventions", "Total_Medical", "Incendies"})
  IN  {[pct |-> ("medical" :> Percent(ColSum(v, "Total_Medical"), total_inter)) @@
                ("incendies" :> Percent(ColSum(v, "Incendies"), total_inter)) @@
                ("accidents" :> Percent(ColSum(v, "Accidents_circulation"), total_inter)) @@
                ("pct_Secours_victime" :> share("Secours_victime")) @@
                ("pct_Secours_personne" :> share("Secours_personne")) @@
                ("pct_Incendies" :> share("Incendies")) @@
                ("pct_Accidents_circulation" :> share("Accidents_circulation")) @@
                ("pct_Operations_diverses" :> share("Operations_diverses")),
        tab |-> ("top_depts" :> t)]
       : t \in nlargest(grouped, TopDeptsN, "Total_interventions")}

\* The mean of the rates rate_col[p], p in ps.
RECURSIVE RateSum(_, _)
RateSum(rate_col, ps) ==
  IF ps = {} THEN Zero
  ELSE LET p == CHOOSE q \in ps : TRUE
           r == RateSum(rate_col, ps \ {p})
       IN  Frac(rate_col[p].n * r.d + r.n * rate_col[p].d, rate_col[p].d * r.d)

RateMean(rate_col, ps) ==
  LET sum == RateSum(rate_col, ps) IN Frac(sum.n, sum.d * Cardinality(ps))

MutRegionCarence(d) ==
  LET t == GroupSum(d, <<"Region">>, {"Malaises_Carence", "Total_Malaises"}) IN
  WithRate(t, "Taux_Carence",
           [g \in DOMAIN t |->
              RateMean(d.c["Taux_Carence"],
                       {i \in 1..d.n : KeyAt(d, <<"Region">>, i) = t[g].key})])

\* Lines 451-460: the carence rate of each region, from the whole table.
RegionCarence(d) ==
  LET t == GroupSum(d, <<"Region">>, {"Malaises_Carence", "Total_Malaises"}) IN
  WithRate(t, "Taux_Carence",
           [g \in DOMAIN t |->
              GuardedPercent(t[g].v["Malaises_Carence"], t[g].v["Total_Malaises"])])

\* Page 3, lines 372-462.
UrgencesMedicales(d, v) ==
  {[pct |-> ("taux_carence" :>
               GuardedPercent(ColSum(v, "Malaises_Carence"), ColSum(v, "Total_Malaises"))),
    tab |-> ("region_carence" :> head(t, TopRegionsN))]
   : t \in sort_values_desc(RegionCarence(d), "Taux_Carence")}

\* Lines 548-554.
ZoneAnalysis(v) ==
  LET t == GroupSum(v, <<"Zone">>, {"Incendies", "Feux_habitations", "Total_interventions"}) IN
  WithRate(t, "Part_Incendies",
           [g \in DOMAIN t |-> Percent(t[g].v["Incendies"], t[g].v["Total_interventions"])])

\* Page 4, lines 487-554.
Incendies(v) ==
  LET total_incendies == ColSum(v, "Incendies") IN
  {[pct |-> ("pct_incendies" :>
               GuardedPercent(total_incendies, ColSum(v, "Total_interventions"))) @@
            ("pct_hab" :> GuardedPercent(ColSum(v, "Feux_habitations"), total_incendies)),
    tab |-> ("top_incendies" :> t) @@ ("zone_analysis" :> ZoneAnalysis(v))]
   : t \in nlargest(GroupSum(v, <<"Departement">>, {"Incendies"}), TopIncendiesN, "Incendies")}

\* Lines 594-619: one row per department of the whole table, with the metric.
DfMap(d, metric_choice) ==
  LET t == GroupSum(d, <<"Code_Dept", "Departement">>,
                    {"Total_interventions", "Total_Medical", "Incendies",
                     "Malaises_Carence", "Total_Malaises"})
  IN
  WithRate(t, "Metric",
           [g \in DOMAIN t |->
             CASE metric_choice = "Taux de carence" ->
                    GuardedPercent(t[g].v["Malaises_Carence"], t[g].v["Total_Malaises"])
               [] metric_choice = "Total interventions" ->
                    Count(t[g].v["Total_interventions"])
               [] metric_choice = "Part urgences médicales" ->
                    GuardedPercent(t[g].v["Total_Medical"], t[g].v["Total_interventions"])
               [] OTHER -> Count(t[g].v["Incendies"])])

\* Lines 666-677.
DfDisplay(df_map) ==
  WithRate(df_map, "Part médical (%)",
           [g \in DOMAIN df_map |->
              Round1(Percent(df_map[g].v["Total_Medical"],
                             df_map[g].v["Total_interventions"]))])

\* Page 5, lines 588-686.
AnalyseGeographique(d, metric_choice, n) ==
  LET df_map == DfMap(d, metric_choice) IN
  {[pct |-> NoPct,
    tab |-> ("df_map" :> df_map) @@ ("df_map_sorted" :> t) @@
            ("df_display" :> DfDisplay(df_map))]
   : t \in nlargest(df_map, n, "Metric")}

\* What one run of the script can show for the page selected.
Render(d, v, p, metric_choice, n) ==
  CASE p = "Contexte" -> Contexte(d)
    [] p = "Vue d'ensemble" -> VueEnsemble(v)
    [] p = "Urgences médicales" -> UrgencesMedicales(d, v)
    [] p = "Incendies" -> Incendies(v)
    [] p = "Analyse géographique" -> AnalyseGeographique(d, metric_choice, n)
    [] OTHER -> {[pct |-> NoPct, tab |-> NoTables]}

(***************************************************************************)
(* The files explored                                                      *)
(***************************************************************************)
MaxRows == 3      \* lines of a file
MaxTopN == 2      \* the slider's largest value

\* The headers of the source file, as col_mapping and required_cols know
\* them, and one column the dashboard does not know.
KnownCols ==
  << "Année", "Région", "Numéro", "Département", "Catégorie A", "Zone",
     "Feux d'habitations-bureaux", "Incendies", "Secours à victime",
     "Secours à personne", "Malaises à domicile : urgence vitale",
     "Malaises à domicile : carence", "Accidents de circulation",
     "Opérations diverses", "Total interventions" >>

SourceCols == KnownCols \o <<"Observations">>

Range(q) == {q[i] : i \in DOMAIN q}

\* A line of the file: year, region, number, department, category, zone and
\* the nine counts, as written in the file.
Line(region, numero, dept, cat, zone, counts) ==
  [c \in Range(SourceCols) |->
     CASE c = "Année" -> <<"2", "0", "2", "3">>
       [] c = "Région" -> region
       [] c = "Numéro" -> numero
       [] c = "Département" -> dept
       [] c = "Catégorie A" -> cat
       [] c = "Zone" -> zone
       [] c = "Observations" -> <<"o", "k">>
       [] OTHER -> counts[(CHOOSE j \in DOMAIN KnownCols : KnownCols[j] = c) - 6]]

\* counts: Feux d'habitations, Incendies, Secours à victime, Secours à
\* personne, Malaises urgence vitale, Malaises carence, Accidents,
\* Opérations diverses, Total interventions
Lines ==
  << Line(<<"A">>, <<"1">>, <<"Y", "s">>, <<"P">>, <<"U">>,
          << <<"1">>, <<"2">>, <<"5">>, <<"4">>, <<"3">>, <<"1">>, <<"1">>,
             <<"2", ".", "5">>, <<"1", "0">> >>),
     Line(<<"A">>, <<"1">>, <<"Y", "s">>, <<"P">>, <<"U">>,
          << <<"0">>, <<"1">>, <<"1">>, <<"0">>, <<"-", "1">>, <<"3">>, <<"0">>,
             <<"0">>, <<"2">> >>),
     Line(<<"B">>, <<"2">>, <<"A", "i", "n">>, <<>>, <<"U">>,
          << <<"1">>, <<"2">>, <<"3">>, <<"3">>, <<"0">>, <<"0">>, <<"2">>,
             <<"1">>, <<"1", "0">> >>),
     Line(<<>>, <<>>, <<"N", "/", "A">>, <<"P">>, <<>>,
          << <<>>, <<"1", "2", "3", "4", ",", "5">>, <<"N", "/", "A">>, <<"x">>,
             <<"-", "2">>, <<"1">>, <<"7">>, <<"2">>, <<"1", " ", "2", "3", "4">> >>) >>

Std(name) == [core |-> name, lead |-> 0, trail |-> 0]

\* Other spellings of the region header: "Région" between spaces,
\* "REGION " and "Region".
RegionSpellings ==
  { [core |-> "Région", lead |-> 1, trail |-> 1],
    [core |-> "REGION", lead |-> 0, trail |-> 1],
    [core |-> "Region", lead |-> 0, trail |-> 0] }

\* The file with the columns `present`, the region header spelt `region`,
\* and the lines `rows`.
File(present, region, rows) ==
  LET names == SelectSeq(SourceCols, LAMBDA c : c \in present)
  IN  [n |-> Len(rows),
       h |-> [j \in DOMAIN names |-> IF names[j] = "Région" THEN region ELSE Std(names[j])],
       col |-> [j \in DOMAIN names |-> [i \in DOMAIN rows |-> rows[i][names[j]]]],
       delimiter |-> ";",
       faults |-> {}]

\* The same file when read_csv raises under the encodings `faults`.
Faulty(file, faults) == [file EXCEPT !.faults = faults]

\* The fields of a line, from the j-th on, joined by commas.
RECURSIVE JoinFields(_, _)
JoinFields(line, j) ==
  IF j > Len(SourceCols) THEN << >>
  ELSE line[SourceCols[j]] \o (IF j < Len(SourceCols) THEN <<",">> ELSE << >>)
         \o JoinFields(line, j + 1)

\* The header line of a file with every source column, delimited by commas.
CommaHeader ==
  "Année,Région,Numéro,Département,Catégorie A,Zone,Feux d'habitations-bureaux,Incendies,Secours à victime,Secours à personne,Malaises à domicile : urgence vitale,Malaises à domicile : carence,Accidents de circulation,Opérations diverses,Total interventions,Observations"

\* A comma-delimited file with every source column, as read_csv(sep=";")
\* reads it: one column, whose header is the header line and whose cells
\* are the lines.
CommaFile(rows) ==
  [n |-> Len(rows),
   h |-> <<Std(CommaHeader)>>,
   col |-> << [i \in DOMAIN rows |-> JoinFields(rows[i], 1)] >>,
   delimiter |-> ",",
   faults |-> {}]

\* The encodings under which the read fails: none, the first ones (the file
\* is locked or being written when the loop starts), or all of them (no
\* file, an empty file, a line with more fields than the header).
FaultSets ==
  {{encodings[k] : k \in 1..m} : m \in 1..Len(encodings)}

\* The lines of a file are distinct.
Tables ==
  UNION {{t \in [1..m -> Range(Lines)] : \A i, j \in 1..m : i # j => t[i] # t[j]}
         : m \in 0..MaxRows}

SmallTable == <<Lines[1]>>

\* Two lines, the second with a region cell made of one space.
WhitespaceTable ==
  << Lines[1],
     Line(<<" ">>, <<"3">>, <<"C">>, <<"P">>, <<"U">>,
          << <<"1">>, <<"1">>, <<"1">>, <<"1">>, <<"1">>, <<"1">>, <<"1">>, <<"1">>,
             <<"8">> >>) >>

\* Every known column, every known column but one, and none of them; and
\* the other spellings of the region header.
Files ==
  {File(Range(SourceCols), Std("Région"), rows) : rows \in Tables}
  \cup {File(Range(SourceCols) \ {c}, Std("Région"), SmallTable) : c \in Range(KnownCols)}
  \cup {File({"Observations"}, Std("Région"), SmallTable)}
  \cup {File(Range(SourceCols), sp, SmallTable) : sp \in RegionSpellings}
  \cup {Faulty(File(Range(SourceCols), Std("Région"), SmallTable), fs) : fs \in FaultSets}
  \cup {CommaFile(SmallTable)}
  \cup {File(Range(SourceCols), Std("Région"), WhitespaceTable)}

(***************************************************************************)
(* The dashboard                                                           *)
(***************************************************************************)
VARIABLES
  raw,                \* the file read
  status,             \* "boot", "running", or "stopped" (st.stop())
  df,                 \* the table load_data returned
  selected_region, selected_zone, selected_category,
  page, metric_choice, top_n,
  df_filtered,
  out,                \* what the page computed: pct (figures), tab (tables)
  attempts,           \* the encodings load_data tried, in order
  errors              \* the calls of st.error in the last run

vars ==
  << raw, status, df, selected_region, selected_zone, selected_category,
     page, metric_choice, top_n, df_filtered, out, attempts, errors >>

EmptyFrame == [n |-> 0, idx |-> << >>, c |-> << >>]

Geo == "Analyse géographique"

\* Widgets without a key lose their value when their page is left.
DefaultMetric == "Taux de carence"
DefaultTopN == MaxTopN

Init ==
  /\ raw \in Files
  /\ status = "boot"
  /\ df = EmptyFrame
  /\ selected_region = Toutes
  /\ selected_zone = Toutes
  /\ selected_category = Toutes
  /\ page = "Contexte"
  /\ metric_choice = DefaultMetric
  /\ top_n = DefaultTopN
  /\ df_filtered = EmptyFrame
  /\ out = [pct |-> NoPct, tab |-> NoTables]
  /\ attempts = << >>
  /\ errors = 0

\* Lines 146-686: one run of the script below the load, with the widgets'
\* values.
Script(d, region, zone, category, p, m, n) ==
  LET v == ApplyFilters(d, region, zone, category) IN
  /\ selected_region' = region
  /\ selected_zone' = zone
  /\ selected_category' = category
  /\ page' = p
  /\ metric_choice' = m
  /\ top_n' = n
  /\ df_filtered' = v
  /\ out' \in Render(d, v, p, m, n)

\* The first run: load_data, then the script with every widget at its default.
Start ==
  /\ status = "boot"
  /\ LET loaded == load_data(raw) IN
       /\ attempts' = loaded.attempts
       /\ errors' = st_error_calls(loaded)
       /\ IF loaded.stopped \/ loaded.raised
         THEN /\ status' = "stopped"
              /\ UNCHANGED << raw, df, selected_region, selected_zone, selected_category,
                              page, metric_choice, top_n, df_filtered, out >>
         ELSE /\ status' = "running"
              /\ df' = [n |-> loaded.n, idx |-> loaded.idx, c |-> loaded.c]
              /\ raw' = raw
              /\ Script(df', Toutes, Toutes, Toutes, "Contexte", DefaultMetric, DefaultTopN)

\* A later run: load_data is cached, the script below the load runs again
\* with the widgets' values.
MutRerun(region, zone, category, p, m, n) ==
  /\ status = "running"
  /\ UNCHANGED << raw, status, attempts, errors >>
  /\ df' = ApplyFilters(df, region, zone, category)
  /\ Script(df, region, zone, category, p, m, n)

Rerun(region, zone, category, p, m, n) ==
  /\ status = "running"
  /\ UNCHANGED << raw, status, df, attempts, errors >>
  /\ Script(df, region, zone, category, p, m, n)

SelectRegion ==
  \E r \in Range(options_list(df, "Region")) \ {selected_region} :
    Rerun(r, selected_zone, selected_category, page, metric_choice, top_n)

SelectZone ==
  \E z \in Range(options_list(df, "Zone")) \ {selected_zone} :
    Rerun(selected_region, z, selected_category, page, metric_choice, top_n)

SelectCategory ==
  \E c \in Range(options_list(df, "Categorie_A")) \ {selected_category} :
    Rerun(selected_region, selected_zone, c, page, metric_choice, top_n)

SelectPage ==
  \E p \in Pages \ {page} :
    Rerun(selected_region, selected_zone, selected_category, p, DefaultMetric, DefaultTopN)

SelectMetric ==
  /\ page = Geo
  /\ \E m \in Metrics \ {metric_choice} :
       Rerun(selected_region, selected_zone, selected_category, page, m, top_n)

SlideTopN ==
  /\ page = Geo
  /\ \E n \in (1..MaxTopN) \ {top_n} :
       Rerun(selected_region, selected_zone, selected_category, page, metric_choice, n)

Next ==
  \/ Start
  \/ SelectRegion
  \/ SelectZone
  \/ SelectCategory
  \/ SelectPage
  \/ SelectMetric
  \/ SlideTopN

Spec == Init /\ [][Next]_vars

(***************************************************************************)
(* Properties                                                              *)
(***************************************************************************)
Running == status = "running"

CanonicalAttributes ==
  { "Annee", "Region", "Numero", "Departement", "Categorie_A", "Zone",
    "Feux_habitations", "Incendies", "Secours_victime", "Secours_personne",
    "Malaises_Urgence", "Malaises_Carence", "Accidents_circulation",
    "Operations_diverses", "Total_interventions",
    "Total_Malaises", "Total_Medical", "Taux_Carence", "Code_Dept" }

\* The canonical columns the file does not supply: no header of the file is
\* renamed to them.
Supplied == {rename(strip(raw.h[j])) : j \in DOMAIN raw.h}

HasHeader(core) == \E j \in DOMAIN raw.h : raw.h[j].core = core

Rows == 1..df.n

Min(a, b) == IF a < b THEN a ELSE b

\* C1: whatever known columns the file read has, load_data does not raise
\* while normalising it, and every row of the table it returns has every
\* canonical attribute.
C1_AllAttributesPresent ==
  /\ status = "stopped" => DfIsNone(raw)
  /\ Running =>
       /\ df.n = raw.n
       /\ \A k \in CanonicalAttributes : k \in DOMAIN df.c /\ DOMAIN df.c[k] = Rows

C1_Witness ==
  /\ Running
  /\ df.n > 0
  /\ \A j \in DOMAIN raw.h : raw.h[j].core \notin Range(KnownCols)

RateIn0To100(r) == IsNum(r) /\ 0 <= r.n /\ r.n <= 100 * r.d

ShortageRateRow(i) ==
  /\ df.c["Total_Malaises"][i].n > 0 => RateIn0To100(df.c["Taux_Carence"][i])
  /\ df.c["Total_Malaises"][i].n = 0 => df.c["Taux_Carence"][i] = Zero

\* C2 as stated: for every row, Taux_Carence is in [0, 100] when
\* Total_Malaises > 0 and exactly 0 when Total_Malaises = 0.
C2_RateBoundedAnyRow == Running => \A i \in Rows : ShortageRateRow(i)

\* C2 amended: the same for every row whose Malaises_Urgence and
\* Malaises_Carence are not negative.
C2_RateBoundedNonNegative ==
  Running =>
    \A i \in Rows :
      (df.c["Malaises_Urgence"][i].n >= 0 /\ df.c["Malaises_Carence"][i].n >= 0)
        => ShortageRateRow(i)

C2_Witness ==
  /\ Running
  /\ \E i, j \in Rows :
       /\ df.c["Malaises_Urgence"][i].n > 0
       /\ df.c["Malaises_Carence"][i].n > 0
       /\ df.c["Taux_Carence"][i] = Frac(25, 1)
       /\ df.c["Malaises_Urgence"][j].n = 0
       /\ df.c["Malaises_Carence"][j].n = 0
       /\ df.c["Taux_Carence"][j] = Zero

\* The rows of the table with the group key `key`.
Members(by, key) == {i \in Rows : KeyAt(df, by, i) = key}

\* rate = 100 x sum(num_col) / sum(den_col) over the rows ps, where `dens`
\* says for which summed denominators this is claimed.
SumThenDivide(rate, num_col, den_col, ps, dens) ==
  LET num == SumOver(df.c[num_col], ps)
      den == SumOver(df.c[den_col], ps)
  IN  den \in dens => (IsNum(rate) /\ rate.n * den = 100 * num * rate.d)

AggregateRates(dens) ==
  /\ page = "Urgences médicales" =>
       \A g \in Range(out.tab["region_carence"]) :
         SumThenDivide(g.r["Taux_Carence"], "Malaises_Carence", "Total_Malaises",
                       Members(<<"Region">>, g.key), dens)
  /\ (page = Geo /\ metric_choice = "Taux de carence") =>
       \A g \in Range(out.tab["df_map"]) :
         SumThenDivide(g.r["Metric"], "Malaises_Carence", "Total_Malaises",
                       Members(<<"Code_Dept", "Departement">>, g.key), dens)
  /\ (page = Geo /\ metric_choice = "Part urgences médicales") =>
       \A g \in Range(out.tab["df_map"]) :
         SumThenDivide(g.r["Metric"], "Total_Medical", "Total_interventions",
                       Members(<<"Code_Dept", "Departement">>, g.key), dens)
  /\ page = "Contexte" =>
       SumThenDivide(out.pct["part_medical"], "Total_Medical", "Total_interventions",
                     Rows, dens)

Constraint(col, selected, i) == selected = Toutes \/ df.c[col][i].s = selected

\* The rows of df, in order, that every constraint other than 'Toutes' equals.
Retained(region, zone, category) ==
  SelectSeq([i \in Rows |-> i],
            LAMBDA i : /\ Constraint("Region", region, i)
                       /\ Constraint("Zone", zone, i)
                       /\ Constraint("Categorie_A", category, i))

IsView(v, ps) ==
  /\ v.n = Len(ps)
  /\ v.idx = ps
  /\ DOMAIN v.c = DOMAIN df.c
  /\ \A k \in DOMAIN df.c : v.c[k] = [j \in 1..Len(ps) |-> df.c[k][ps[j]]]

\* C4: df_filtered is exactly the rows of df, in df's order, whose Region,
\* Zone and Categorie_A equal every selected constraint other than 'Toutes'
\* (the comparison is the same for the value 'Non renseigné'); with the three
\* constraints at 'Toutes' it is df.
C4_FilteredView ==
  Running =>
    /\ IsView(df_filtered, Retained(selected_region, selected_zone, selected_category))
    /\ IsView(ApplyFilters(df, Sentinel, selected_zone, selected_category),
              Retained(Sentinel, selected_zone, selected_category))
    /\ (selected_region = Toutes /\ selected_zone = Toutes /\ selected_category = Toutes)
         => df_filtered = df

C4_Witness ==
  /\ Running
  /\ selected_region # Toutes
  /\ selected_category # Toutes
  /\ df_filtered.n = 1
  /\ df.n = 3

\* C5: filtering the filtered view again with the same constraints gives the
\* same view.
C5_FilterIdempotent ==
  Running =>
    ApplyFilters(df_filtered, selected_region, selected_zone, selected_category)
      = df_filtered

C5_Witness ==
  /\ Running
  /\ selected_zone # Toutes
  /\ df_filtered.n = 2
  /\ df.n = 3

\* C6: every percentage part / whole x 100 the page computes is a number,
\* and is 0 when the whole is 0: never nan, never an infinity.
C6_PercentOfZeroWholeIsZero ==
  Running =>
    /\ \A name \in DOMAIN out.pct : IsNum(out.pct[name])
    /\ \A name \in DOMAIN out.tab :
         \A g \in Range(out.tab[name]) : \A c \in DOMAIN g.r : IsNum(g.r[c])

\* The top-N selections of the page: the rows shown, the table grouped, n
\* and the metric.
TopSelections ==
  CASE page = "Vue d'ensemble" ->
         {[t |-> out.tab["top_depts"], n |-> TopDeptsN, col |-> "Total_interventions",
           by |-> <<"Departement">>, view |-> df_filtered,
           full |-> GroupSum(df_filtered, <<"Departement">>,
                             {"Total_interventions", "Total_Medical", "Incendies"})]}
    [] page = "Incendies" ->
         {[t |-> out.tab["top_incendies"], n |-> TopIncendiesN, col |-> "Incendies",
           by |-> <<"Departement">>, view |-> df_filtered,
           full |-> GroupSum(df_filtered, <<"Departement">>, {"Incendies"})]}
    [] page = "Urgences médicales" ->
         {[t |-> out.tab["region_carence"], n |-> TopRegionsN, col |-> "Taux_Carence",
           by |-> <<"Region">>, view |-> df, full |-> RegionCarence(df)]}
    [] page = Geo ->
         {[t |-> out.tab["df_map_sorted"], n |-> top_n, col |-> "Metric",
           by |-> <<"Code_Dept", "Departement">>, view |-> df,
           full |-> out.tab["df_map"]]}
    [] OTHER -> {}

Keys(view, by) == {KeyAt(view, by, i) : i \in 1..view.n}

\* The grouped rows in the order in which their keys first appear in view.
ByFirstAppearance(full, view, by) ==
  LET ks == AppearanceKeys(view, by, 1)
  IN  [j \in DOMAIN ks |-> full[CHOOSE g \in DOMAIN full : full[g].key = ks[j]]]

\* min(n, groups) rows, each a group of the view, no group twice, in
\* descending order, no group left out above one that is shown.
LargestDescending(s) ==
  /\ Len(s.t) = Min(s.n, Cardinality(Keys(s.view, s.by)))
  /\ \A i \in DOMAIN s.t : s.t[i] \in Range(s.full) /\ s.t[i].key \in Keys(s.view, s.by)
  /\ \A i, j \in DOMAIN s.t : i # j => s.t[i].key # s.t[j].key
  /\ Descending(s.t, s.col)
  /\ \A g \in Range(s.full) : \A i \in DOMAIN s.t :
       g \notin Range(s.t) => RateLeq(Value(g, s.col), Value(s.t[i], s.col))

\* Among groups of equal metric the smaller key comes first, and is shown
\* first.
TiesInKeyOrder(s) ==
  /\ \A i, j \in DOMAIN s.t :
       (i < j /\ Value(s.t[i], s.col) = Value(s.t[j], s.col))
         => KeyLess(s.t[i].key, s.t[j].key)
  /\ \A g \in Range(s.full) : \A i \in DOMAIN s.t :
       (g \notin Range(s.t) /\ Value(g, s.col) = Value(s.t[i], s.col))
         => KeyLess(s.t[i].key, g.key)

\* C7 as stated: min(n, groups) groups, each once, in descending order of
\* the metric, groups of equal metric in their order of first appearance.
C7_TopNFirstAppearance ==
  Running =>
    \A s \in TopSelections :
      s.t = head(StableDesc(ByFirstAppearance(s.full, s.view, s.by), s.col), s.n)

\* C7 amended: min(n, groups) groups, each once, in descending order of the
\* metric, all of them when n exceeds their number; groups of equal metric
\* are in ascending key order when n is smaller than the number of groups,
\* and in no fixed order otherwise.
C7_TopNDescending ==
  Running =>
    \A s \in TopSelections :
      /\ LargestDescending(s)
      /\ s.n < Len(s.full) => TiesInKeyOrder(s)

\* n smaller than the number of groups, and two groups of equal metric whose
\* key order is not their order of first appearance.
C7_Witness ==
  /\ Running
  /\ page = Geo
  /\ top_n = 1
  /\ Len(out.tab["df_map"]) = 2
  /\ Value(out.tab["df_map"][1], "Metric") = Value(out.tab["df_map"][2], "Metric")
  /\ KeyAt(df, <<"Code_Dept", "Departement">>, 1) = out.tab["df_map"][2].key
  /\ out.tab["df_map_sorted"] = <<out.tab["df_map"][1]>>

IsZero(c) == c.t \in {"int", "float"} /\ c.n = 0

\* C8 as stated: a canonical column absent from the file is 0 in every row
\* when numeric, and 'Non renseigné' when categorical: region, department,
\* department code, zone, category.
C8_DefaultsSentinelCode ==
  Running =>
    \A i \in Rows :
      /\ \A k \in numeric_cols \ Supplied : IsZero(df.c[k][i])
      /\ \A k \in {"Region", "Departement", "Zone", "Categorie_A"} \ Supplied :
           df.c[k][i] = StrCell(Sentinel)
      /\ "Numero" \notin Supplied => df.c["Code_Dept"][i] = StrCell(Sentinel)

\* C8 amended: 0 when numeric, Annee and Numero included; 'Non renseigné'
\* for Region, Departement, Zone and Categorie_A; the department code of a
\* file without Numero is '00'.
C8_Defaults ==
  Running =>
    \A i \in Rows :
      /\ \A k \in (numeric_cols \cup {"Annee", "Numero"}) \ Supplied : IsZero(df.c[k][i])
      /\ \A k \in {"Region", "Departement", "Zone", "Categorie_A"} \ Supplied :
           df.c[k][i] = StrCell(Sentinel)
      /\ "Numero" \notin Supplied => df.c["Code_Dept"][i] = StrCell(<<"0", "0">>)

C8_Witness ==
  /\ Running
  /\ df.n > 0
  /\ ~HasHeader("Numéro")
  /\ HasHeader("Région")

\* The number a text denotes once whitespace is removed and the decimal
\* comma replaced by a period; 0 when it then denotes none.
Cleaned(text) ==
  LET kept == SelectSeq(text, LAMBDA ch : ch # " ")
  IN  [i \in DOMAIN kept |-> IF kept[i] = "," THEN "." ELSE kept[i]]

Denoted(text) == IF IsNumberLiteral(Cleaned(text)) THEN ParseNumber(Cleaned(text)) ELSE 0

RawColumn(core) == raw.col[CHOOSE j \in DOMAIN raw.h : raw.h[j].core = core]

\* C9: every numeric cell is the number its text denotes after whitespace
\* is removed and the decimal comma replaced: '1 234' is 1234, '1234,5' is
\* 1234.5; an empty cell, a null cell and 'N/A' are 0.
C9_CoercionCleansText ==
  Running =>
    \A old \in DOMAIN col_mapping \cup {"Incendies"} :
      (HasHeader(old) /\ rename(old) \in numeric_cols) =>
        \A i \in Rows : df.c[rename(old)][i].n = Denoted(RawColumn(old)[i])

\* C10: the headers 'Région' and 'REGION ' both resolve to Region, so the
\* file's values, not the default, are in Region.
C10_RegionHeaderResolved ==
  Running =>
    \A j \in DOMAIN raw.h :
      raw.h[j].core \in {"Région", "REGION"} =>
        \A i \in Rows :
          df.c["Region"][i] =
            (IF raw.col[j][i] \in NaValues THEN StrCell(Sentinel) ELSE StrCell(raw.col[j][i]))

\* C11: when read_csv raises under every encoding tried, the load fails
\* fatally: st.error is called exactly once, the script stops there, and no
\* later step runs: no filter is built, no view, no figure and no table is
\* computed, and no further run can be triggered.
C11_FatalLoadFailure ==
  (status # "boot" /\ DfIsNone(raw)) =>
    /\ status = "stopped"
    /\ errors = 1
    /\ attempts = encodings
    /\ df = EmptyFrame
    /\ df_filtered = EmptyFrame
    /\ out = [pct |-> NoPct, tab |-> NoTables]
    /\ ~ENABLED Next

C11_Witness ==
  /\ status = "stopped"
  /\ DfIsNone(raw)
  /\ Len(attempts) = Len(encodings)
  /\ errors = 1

\* C12: once loaded, the canonical table df is never changed by a filter
\* selection or a page rendering: same rows, same order, same values, the
\* derived columns included.
C12_TableUnchanged == [][status = "running" => df' = df]_vars

C12_Witness ==
  /\ Running
  /\ selected_region # Toutes
  /\ page = Geo
  /\ df_filtered.n > 0
  /\ df_filtered.n < df.n
  /\ \E g \in Range(out.tab["df_map"]) : TRUE

\* C13: after every filter selection, every figure and every grouped table
\* of the current page is the one computed from the view filtered by the
\* selected region, zone and category, not from the whole table.
C13_SummariesFromFilteredView ==
  Running => out \in Render(df_filtered, df_filtered, page, metric_choice, top_n)

\* C14: for every row, Code_Dept is the department's numeric code padded
\* with zeros to two digits: at least two characters, digits only, and, when
\* the Numéro cell of the file is a whole number, that number ('1' gives
\* '01'); this whatever the other cells of the Numéro column are, blank ones
\* included.
C14_CodeDeptZeroPadded ==
  Running =>
    \A i \in Rows :
      LET code == df.c["Code_Dept"][i].s IN
        /\ Len(code) >= 2
        /\ AllDigits(code)
        /\ (HasHeader("Numéro") /\ AllDigits(RawColumn("Numéro")[i])) =>
             DigitsVal(code) = DigitsVal(RawColumn("Numéro")[i])

\* C15: the loader tries its attempts in order and accepts the first one
\* that neither raises nor parses the file into a single column; an attempt
\* that yields a single column is rejected and the next one is tried, so a
\* table of one column is never accepted.
C15_FirstMultiColumnAttempt ==
  status # "boot" =>
    LET accepts(k) == ~Raises(raw, encodings[k]) /\ Len(raw.h) > 1 IN
      IF \E k \in DOMAIN encodings : accepts(k)
        THEN /\ Running
             /\ accepts(Len(attempts))
             /\ \A k \in 1..(Len(attempts) - 1) : ~accepts(k)
             /\ attempts = SubSeq(encodings, 1, Len(attempts))
        ELSE /\ status = "stopped"
             /\ attempts = encodings

\* The number a cell of the file becomes by to_numeric(errors='coerce') and
\* fillna(0), in tenths: the value of a number literal, 0 for any other text;
\* 0 as well when the file has no column for the attribute.
Coerced(attribute, i) ==
  IF attribute \in Supplied
    THEN LET j == CHOOSE j \in DOMAIN raw.h : rename(strip(raw.h[j])) = attribute
         IN  IF IsNumberLiteral(raw.col[j][i]) THEN ParseNumber(raw.col[j][i]) ELSE 0
    ELSE 0

\* C16: the derived columns are computed after the numeric columns have been
\* filled and converted: in every row Total_Malaises = Malaises_Urgence +
\* Malaises_Carence and Total_Medical = Secours_victime + Secours_personne on
\* the converted values, never on the cells as read from the file, and this
\* stays so in every later state.
C16_DerivedAfterCoercion ==
  Running =>
    \A i \in Rows :
      /\ \A k \in {"Malaises_Urgence", "Malaises_Carence", "Secours_victime",
                   "Secours_personne"} :
           df.c[k][i].t \in {"int", "float"} /\ df.c[k][i].n = Coerced(k, i)
      /\ df.c["Total_Malaises"][i].n =
           Coerced("Malaises_Urgence", i) + Coerced("Malaises_Carence", i)
      /\ df.c["Total_Medical"][i].n =
           Coerced("Secours_victime", i) + Coerced("Secours_personne", i)

\* A column read as text ('4' beside 'x'): the total of the row of '4' counts
\* the 4.
C16_Witness ==
  /\ Running
  /\ page # "Contexte"
  /\ HasHeader("Secours à personne")
  /\ \E i, j \in Rows :
       /\ RawColumn("Secours à personne")[i] = <<"x">>
       /\ RawColumn("Secours à personne")[j] = <<"4">>
       /\ df.c["Total_Medical"][j].n = 90

IsBlank(text) == \A i \in DOMAIN text : text[i] = " "

\* C17: in each categorical column (Region, Departement, Categorie_A, Zone)
\* a cell of the file that is empty, made of whitespace only, or a 'not
\* available' token is the sentinel 'Non renseigné' in the table, so that no
\* blank value is offered in a filter.
C17_BlankCategoricalIsSentinel ==
  Running =>
    /\ \A k \in text_cols \cap Supplied : \A i \in Rows :
         LET text == raw.col[CHOOSE j \in DOMAIN raw.h : rename(strip(raw.h[j])) = k][i]
         IN  (IsBlank(text) \/ text \in NaValues) => df.c[k][i].s = Sentinel
    /\ \A k \in text_cols : \A o \in Range(options_list(df, k)) : ~IsBlank(o)

GroupingKeys ==
  { <<"Departement">>, <<"Zone">>, <<"Region">>, <<"Code_Dept", "Departement">> }

SummedCols == numeric_cols \cup {"Total_Malaises", "Total_Medical"}

\* Grouping view by the key `by`: for every summed column the sums per group
\* add up to the sum over the view, and every row of the view is in exactly
\* one group.
Partitions(view, by) ==
  LET t == GroupSum(view, by, SummedCols) IN
  /\ \A col \in SummedCols :
       SumOver([g \in DOMAIN t |-> [n |-> t[g].v[col]]], DOMAIN t) = ColSum(view, col)
  /\ \A i \in 1..view.n :
       Cardinality({g \in DOMAIN t : t[g].key = KeyAt(view, by, i)}) = 1

\* C18: grouping loses and duplicates no row: for the whole table and for
\* the filtered view, for each grouping key of the dashboard and each summed
\* column, the sums per group add up to the sum over the view and every row
\* belongs to exactly one group.
C18_GroupingPartitions ==
  Running =>
    \A view \in {df, df_filtered} : \A by \in GroupingKeys : Partitions(view, by)

\* Three lines, two of them of one region and one without a region.
C18_Witness ==
  /\ Running
  /\ page = "Urgences médicales"
  /\ df.n = 3
  /\ \E i \in Rows : raw.col[2][i] = << >> /\ df.c["Region"][i].s = Sentinel
  /\ Len(GroupSum(df, <<"Region">>, {"Total_Malaises"})) = 2
  /\ Len(out.tab["region_carence"]) = 2

====
